---- MODULE Spec2Model ----
(***************************************************************************)
(* A model of the latinbingo repository: the card composer                 *)
(* (main.py create_bingo_card), the bold parser and the word wrap          *)
(* (main.py parse_bold_text, wrap_text_pil, wrap_text_with_bold) and the    *)
(* PDF assembler (create_pdf.py).  The two tools share no state; each is a  *)
(* component with its own initial states and its own next-state relation.   *)
(***************************************************************************)
EXTENDS Integers, Sequences, FiniteSets, TLC

VARIABLES
    pc,             \* position of the running operation
    \* main.py create_bingo_card
    squares,        \* the parsed pool (entry identities)
    other_squares,  \* the candidate list being built
    card,           \* the returned 5x5 grid (<<>> until built)
    \* main.py parse_bold_text, wrap_text_with_bold, wrap_text_pil
    text,           \* the input string, a sequence of characters
    max_width,      \* the maximum line width
    bold_extra,     \* font metrics: how much wider a bold glyph is
    segments,       \* what parse_bold_text returned
    wrapped_lines,  \* what wrap_text_with_bold returned
    lines,          \* what wrap_text_pil returned
    \* create_pdf.py
    finals_exists,  \* whether the finals folder exists
    finals,         \* the names of the card files in the finals folder
    card_files,     \* the sorted list of card file names
    unreadable,     \* the card files that fail to open or embed
    i,              \* the loop index of the running PDF function
    cards_on_page,  \* compact mode: cards placed on the current page
    page_num,       \* compact mode: the page number of the footer
    pages,          \* the canvas: the pages emitted so far
    page,           \* the canvas: what is drawn on the page in progress
    saved,          \* the canvas: how many times save was called
    canvas,         \* whether canvas.Canvas(...) was called
    \* main.py main
    num_cards,      \* how many cards the user asked for
    \* main.py draw_bingo_on_template, one cell
    formatted_text, \* what format_square_text returned: <<text, font size>> pairs
    cell_width,     \* the side of the (square) cell
    cell_y,         \* the top edge of the cell
    font_normal,    \* single block: the font tier in use
    font1_normal,   \* two-line square: the tier of the main line
    font2_normal,   \* two-line square: the tier of the secondary line
    wrapped_line1,  \* two-line square: the wrapped main line
    wrapped_line2,  \* two-line square: the wrapped secondary line
    start_y1,       \* two-line square: the top of the main block
    start_y2        \* two-line square: the top of the secondary block

cardVars == <<squares, other_squares, card>>
textVars == <<text, max_width, bold_extra, segments, wrapped_lines, lines>>
pdfVars ==
    <<finals_exists, finals, card_files, unreadable, i, cards_on_page, page_num,
      pages, page, saved, canvas>>
mainVars == <<num_cards>>
cellVars ==
    <<formatted_text, cell_width, cell_y, font_normal, font1_normal, font2_normal,
      wrapped_line1, wrapped_line2, start_y1, start_y2>>
vars == <<pc, cardVars, textVars, pdfVars, mainVars, cellVars>>

\* The values of a component that is not running.
IdleCard == squares = <<>> /\ other_squares = <<>> /\ card = <<>>
IdleText ==
    /\ text = <<>> /\ max_width = 0 /\ bold_extra = 0
    /\ segments = <<>> /\ wrapped_lines = <<>> /\ lines = <<>>
IdlePdf ==
    /\ finals_exists = FALSE /\ finals = {}
    /\ card_files = <<>> /\ unreadable = {} /\ i = 0 /\ cards_on_page = 0
    /\ page_num = 0 /\ pages = <<>> /\ page = <<>> /\ saved = 0
    /\ canvas = FALSE
IdleMain == num_cards = 0
IdleCell ==
    /\ formatted_text = <<>> /\ cell_width = 0 /\ cell_y = 0
    /\ font_normal = "none" /\ font1_normal = "none" /\ font2_normal = "none"
    /\ wrapped_line1 = <<>> /\ wrapped_line2 = <<>>
    /\ start_y1 = 0 /\ start_y2 = 0

Min(a, b) == IF a <= b THEN a ELSE b

(***************************************************************************)
(* Card composer: main.py create_bingo_card                                *)
(***************************************************************************)

\* Bounds of the model.
MaxPool == 26       \* largest pool length (free space included)
MaxShift == 3       \* largest rotation the random source is given

\* Program constants.
GridSize == 5
NeededSquares == 24
CenterIndex == 2
DefaultFree == 0 - 1    \* stands for the literal "FREE" of an empty pool

\* The pool read by parse_bingo_file: entry i of the file is identified by
\* its 0-based position i, so squares = <<0, 1, ..., n-1>>.
Pool(n) == [x \in 1..n |-> x - 1]

\* Python's squares[a:b] on a 1-based TLA+ sequence.
Slice(s, a, b) == SubSeq(s, a + 1, Min(b, Len(s)))

\* free_space = squares[0] if squares else "FREE"
free_space == IF Len(squares) > 0 THEN squares[1] ELSE DefaultFree

\* A rotation of s to the left by r, optionally reversed: the outcomes the
\* model gives random.shuffle and the ordering of random.sample.
Rotate(s, r) ==
    [x \in 1..Len(s) |-> s[((x - 1 + r) % Len(s)) + 1]]
Arrange(s, r, rev) ==
    IF rev THEN [x \in 1..Len(s) |-> s[((Len(s) - x + r) % Len(s)) + 1]]
    ELSE Rotate(s, r)

\* The subsequence of s at the positions not in omit.
Without(s, omit) ==
    LET kept == (1..Len(s)) \ omit
        Nth(j) == CHOOSE p \in kept : Cardinality({ q \in kept : q <= p }) = j
    IN [j \in 1..Cardinality(kept) |-> s[Nth(j)]]

\* The subsets of 1..n that have d elements: the positions left out.
RECURSIVE Omissions(_, _)
Omissions(n, d) ==
    IF d < 0 \/ n < d THEN {}
    ELSE IF d = 0 THEN {{}}
    ELSE Omissions(n - 1, d) \cup { o \cup {n} : o \in Omissions(n - 1, d - 1) }

\* A draw with replacement (random.choices): positions may repeat.
SampleWithReplacement(population, k) ==
    { [j \in 1..k |-> population[((j - 1 + r) % (k - 1)) + 1]] : r \in 0..MaxShift }

\* random.sample(population, k): k entries at pairwise distinct positions.
SampleOutcomes(population, k) ==
    LET drawn == { Without(population, omit) :
                     omit \in Omissions(Len(population), Len(population) - k) }
    IN { Rotate(d, r) : d \in drawn, r \in 0..MaxShift }

\* random.shuffle(x): a rearrangement of x.
ShuffleOutcomes(x) ==
    { Arrange(y, r, rev) : y \in {x}, r \in 0..MaxShift, rev \in BOOLEAN }

\* The slice taken from position 0: the free space is repeated as well.
ExtendSliceFromZero(sq) == Slice(sq, 0, Min(Len(sq), NeededSquares))

\* The slice the while loop appends: squares[1:min(len(squares), 24)].
ExtendSlice(sq) == Slice(sq, 1, Min(Len(sq), NeededSquares))

\* The grid loop: row-major, the centre gets free_space, every other cell
\* the next entry of other_squares.
RECURSIVE FillRow(_, _, _, _, _)
FillRow(row, col, others, free, square_index) ==
    IF col = GridSize THEN <<>>
    ELSE IF row = CenterIndex /\ col = CenterIndex
         THEN <<free>> \o FillRow(row, col + 1, others, free, square_index)
         ELSE <<others[square_index + 1]>>
                  \o FillRow(row, col + 1, others, free, square_index + 1)

\* Number of entries of other_squares consumed before row starts.
UsedBefore(row) ==
    row * GridSize - (IF row > CenterIndex THEN 1 ELSE 0)

BuildGrid(others, free) ==
    [r \in 1..GridSize |-> FillRow(r - 1, 0, others, free, UsedBefore(r - 1))]

InitCard ==
    /\ pc = "card_start"
    /\ squares \in { Pool(n) : n \in 0..MaxPool }
    /\ other_squares = <<>>
    /\ card = <<>>
    /\ IdleText
    /\ IdlePdf
    /\ IdleMain
    /\ IdleCell

\* Lines 196-200, 205: take the candidates and choose the branch.
TakeCandidates ==
    /\ pc = "card_start"
    /\ other_squares' = (IF Len(squares) > 1 THEN Slice(squares, 1, Len(squares))
                         ELSE <<>>)
    /\ pc' = IF Len(other_squares') < NeededSquares THEN "card_while"
             ELSE "card_sample"
    /\ UNCHANGED <<squares, card, textVars, pdfVars, mainVars, cellVars>>

\* Lines 202-203: one iteration of the while loop.
ExtendStep ==
    /\ pc = "card_while"
    /\ Len(other_squares) < NeededSquares
    /\ other_squares' = other_squares \o ExtendSlice(squares)
    /\ UNCHANGED <<pc, squares, card, textVars, pdfVars, mainVars, cellVars>>

\* Line 204: the loop has ended, keep the first 24.
Truncate ==
    /\ pc = "card_while"
    /\ Len(other_squares) >= NeededSquares
    /\ other_squares' = Slice(other_squares, 0, NeededSquares)
    /\ pc' = "card_shuffle"
    /\ UNCHANGED <<squares, card, textVars, pdfVars, mainVars, cellVars>>

\* Line 207: random.sample(other_squares, 24).
Sample ==
    /\ pc = "card_sample"
    /\ other_squares' \in SampleOutcomes(other_squares, NeededSquares)
    /\ pc' = "card_shuffle"
    /\ UNCHANGED <<squares, card, textVars, pdfVars, mainVars, cellVars>>

\* Line 210: random.shuffle(other_squares).
Shuffle ==
    /\ pc = "card_shuffle"
    /\ other_squares' \in ShuffleOutcomes(other_squares)
    /\ pc' = "card_grid"
    /\ UNCHANGED <<squares, card, textVars, pdfVars, mainVars, cellVars>>

\* Lines 213-226: build the grid and return it.
ReturnCard ==
    /\ pc = "card_grid"
    /\ card' = BuildGrid(other_squares, free_space)
    /\ pc' = "card_returned"
    /\ UNCHANGED <<squares, other_squares, textVars, pdfVars, mainVars, cellVars>>

NextCard ==
    \/ TakeCandidates
    \/ ExtendStep
    \/ Truncate
    \/ Sample
    \/ Shuffle
    \/ ReturnCard

SpecCard == InitCard /\ [][NextCard]_vars

\* The interpreter runs the function to its end: every step that changes
\* the state is eventually taken.
FairSpecCard == SpecCard /\ WF_vars(NextCard)

(***************************************************************************)
(* Properties of the card composer                                         *)
(***************************************************************************)

\* The 24 cells around the centre, as <<row, column>> pairs (1-based).
Center == CenterIndex + 1
NonCenterCells ==
    { rc \in (1..GridSize) \X (1..GridSize) : rc # <<Center, Center>> }

IsGrid(c) ==
    /\ Len(c) = GridSize
    /\ \A r \in 1..GridSize : Len(c[r]) = GridSize

\* pool[1:] as a set of entries.
Candidates == { squares[p] : p \in 2..Len(squares) }

\* How many of the 24 cells hold entry e.
Occurrences(e) == Cardinality({ rc \in NonCenterCells : card[rc[1]][rc[2]] = e })

\* C1: with a pool of at least 25 squares the returned card is a 5x5 grid,
\* its centre is pool[0], its 24 other cells hold pairwise distinct entries
\* of pool[1:], and with exactly 25 squares they are all of pool[1:].
C1_DistinctCells ==
    (pc = "card_returned" /\ Len(squares) >= NeededSquares + 1) =>
        /\ IsGrid(card)
        /\ card[Center][Center] = squares[1]
        /\ \A rc \in NonCenterCells : card[rc[1]][rc[2]] \in Candidates
        /\ \A rc1, rc2 \in NonCenterCells :
              rc1 # rc2 => card[rc1[1]][rc1[2]] # card[rc2[1]][rc2[2]]
        /\ Len(squares) = NeededSquares + 1 =>
              { card[rc[1]][rc[2]] : rc \in NonCenterCells } = Candidates

\* A card drawn from a pool of more than 25 squares, with an entry left out
\* and the order of the pool not kept.
C1_Witness ==
    /\ pc = "card_returned"
    /\ Len(squares) > NeededSquares + 1
    /\ card[1][1] # squares[2]
    /\ \E e \in Candidates : Occurrences(e) = 0

\* C2: with k candidates, 1 <= k < 24, the returned card has 25 cells, the
\* centre is pool[0], and the 24 other cells hold the first 24 entries of the
\* cyclic repetition of pool[1:] as a multiset: candidate j occurs once for
\* every position of 0..23 that is j modulo k.  So every candidate occurs
\* and two candidates' counts differ by at most 1.
C2_CyclicFill ==
    (pc = "card_returned" /\ Len(squares) >= 2 /\ Len(squares) <= NeededSquares) =>
        LET k == Len(squares) - 1 IN
        /\ IsGrid(card)
        /\ card[Center][Center] = squares[1]
        /\ \A rc \in NonCenterCells : card[rc[1]][rc[2]] \in Candidates
        /\ \A j \in 1..k :
              /\ Occurrences(squares[j + 1]) =
                    Cardinality({ n \in 0..(NeededSquares - 1) : n % k = j - 1 })
              /\ Occurrences(squares[j + 1]) >= 1
        /\ \A j1, j2 \in 1..k :
              Occurrences(squares[j1 + 1]) - Occurrences(squares[j2 + 1]) <= 1

\* A card from 5 candidates: four of them occur five times, one four times.
C2_Witness ==
    /\ pc = "card_returned"
    /\ Len(squares) = 6
    /\ Occurrences(squares[2]) = 5
    /\ Occurrences(squares[6]) = 4

\* C3: for every pool of size >= 1 create_bingo_card terminates and returns
\* a 5x5 card with pool[0] in the centre.
C3_Terminates ==
    (pc = "card_start" /\ Len(squares) >= 1)
        ~> (pc = "card_returned" /\ IsGrid(card) /\ card[Center][Center] = squares[1])

(***************************************************************************)
(* Bold parser: main.py parse_bold_text                                    *)
(***************************************************************************)

\* Bound of the model: the longest input string of the bold parser.
MaxBoldLen == 8

\* A string is a sequence of one-character strings.
BoldAlphabet == {"a", "b", "*"}
BoldTexts == UNION { [1..n -> BoldAlphabet] : n \in 0..MaxBoldLen }

\* t[a:] of Python.
Tail_(t, a) == SubSeq(t, a + 1, Len(t))

\* t.find('**', start) with the match allowed to overlap the previous
\* marker: the search starts one character early.
FindOverlapping(t, start) ==
    LET hits == { p \in (start - 1)..(Len(t) - 2) :
                    p >= 0 /\ t[p + 1] = "*" /\ t[p + 2] = "*" }
    IN IF hits = {} THEN 0 - 1
       ELSE CHOOSE p \in hits : \A q \in hits : p <= q

\* t.find('**', start): the lowest 0-based index >= start where '**'
\* begins, or -1.
Find(t, start) ==
    LET hits == { p \in start..(Len(t) - 2) : t[p + 1] = "*" /\ t[p + 2] = "*" }
    IN IF hits = {} THEN 0 - 1
       ELSE CHOOSE p \in hits : \A q \in hits : p <= q

Segment(txt, bold) == [text |-> txt, is_bold |-> bold]

\* The while loop of parse_bold_text from current_pos on.
RECURSIVE ParseFrom(_, _)
ParseFrom(t, current_pos) ==
    IF current_pos >= Len(t) THEN <<>>
    ELSE
      LET bold_start == Find(t, current_pos) IN
      IF bold_start = 0 - 1
      THEN << Segment(Tail_(t, current_pos), FALSE) >>
      ELSE
        LET before == IF bold_start > current_pos
                      THEN << Segment(Slice(t, current_pos, bold_start), FALSE) >>
                      ELSE <<>>
            bold_end == Find(t, bold_start + 2)
        IN IF bold_end = 0 - 1
           THEN before \o << Segment(Tail_(t, bold_start), FALSE) >>
           ELSE
             LET bold_text == Slice(t, bold_start + 2, bold_end)
                 emphasized == IF bold_text # <<>>
                               THEN << Segment(bold_text, TRUE) >>
                               ELSE <<>>
             IN before \o emphasized \o ParseFrom(t, bold_end + 2)

parse_bold_text(t) == ParseFrom(t, 0)

InitBold ==
    /\ pc = "bold_start"
    /\ text \in BoldTexts
    /\ max_width = 0 /\ bold_extra = 0
    /\ segments = <<>> /\ wrapped_lines = <<>> /\ lines = <<>>
    /\ IdleCard
    /\ IdlePdf
    /\ IdleMain
    /\ IdleCell

\* A call of parse_bold_text(text).
ParseBoldText ==
    /\ pc = "bold_start"
    /\ segments' = parse_bold_text(text)
    /\ pc' = "bold_done"
    /\ UNCHANGED <<text, max_width, bold_extra, wrapped_lines, lines,
                   cardVars, pdfVars, mainVars, cellVars>>

NextBold == ParseBoldText

SpecBold == InitBold /\ [][NextBold]_vars

(***************************************************************************)
(* Properties of the bold parser                                           *)
(***************************************************************************)

\* Whether a '**' begins at 1-based position p of t.
MarkerAt(t, p) == p + 1 <= Len(t) /\ t[p] = "*" /\ t[p + 1] = "*"

\* The reading of the markers, character by character: outside a pair a
\* '**' that has a later '**' opens a pair, inside a pair the first '**'
\* closes it; an opening '**' with no later '**' is literal, with all that
\* follows it.  The result is the text without the matched markers, each
\* character with its flag.
RECURSIVE Marked(_, _, _)
Marked(t, p, inside) ==
    IF p > Len(t) THEN <<>>
    ELSE IF inside
    THEN IF MarkerAt(t, p) THEN Marked(t, p + 2, FALSE)
         ELSE << <<t[p], TRUE>> >> \o Marked(t, p + 1, TRUE)
    ELSE IF MarkerAt(t, p)
         THEN IF \E q \in (p + 2)..Len(t) : MarkerAt(t, q)
              THEN Marked(t, p + 2, TRUE)
              ELSE [x \in 1..(Len(t) - p + 1) |-> <<t[p + x - 1], FALSE>>]
         ELSE << <<t[p], FALSE>> >> \o Marked(t, p + 1, FALSE)

\* The 1-based position of the opening '**' that has no closing '**', or 0.
RECURSIVE UnmatchedAt(_, _, _)
UnmatchedAt(t, p, inside) ==
    IF p > Len(t) THEN 0
    ELSE IF inside
    THEN IF MarkerAt(t, p) THEN UnmatchedAt(t, p + 2, FALSE)
         ELSE UnmatchedAt(t, p + 1, TRUE)
    ELSE IF MarkerAt(t, p)
         THEN IF \E q \in (p + 2)..Len(t) : MarkerAt(t, q)
              THEN UnmatchedAt(t, p + 2, TRUE)
              ELSE p
         ELSE UnmatchedAt(t, p + 1, FALSE)

\* The characters of the segments in order, each with its segment's flag.
RECURSIVE Flatten(_)
Flatten(segs) ==
    IF segs = <<>> THEN <<>>
    ELSE [x \in 1..Len(segs[1].text) |-> <<segs[1].text[x], segs[1].is_bold>>]
             \o Flatten(Tail(segs))

\* C7: the segment texts in order are the input without its matched '**'
\* pairs, the text inside a matched pair is flagged and all other text is
\* not, and an opening '**' with no closing '**' comes back with all the
\* text after it as one unflagged last segment.
C7_BoldRoundTrip ==
    pc = "bold_done" =>
        /\ Flatten(segments) = Marked(text, 1, FALSE)
        /\ LET u == UnmatchedAt(text, 1, FALSE) IN
           u > 0 =>
              /\ segments # <<>>
              /\ segments[Len(segments)] = Segment(SubSeq(text, u, Len(text)), FALSE)

\* A parse of a string with a matched pair followed by an unmatched opening
\* marker: an emphasized segment, then the literal rest.
C7_Witness ==
    /\ pc = "bold_done"
    /\ Len(segments) >= 2
    /\ segments[1].is_bold
    /\ UnmatchedAt(text, 1, FALSE) > 0
    /\ Len(segments[Len(segments)].text) > 2

(***************************************************************************)
(* Word wrap: main.py wrap_text_pil, wrap_text_with_bold                   *)
(***************************************************************************)

\* Bounds of the model.
MaxWords == 2       \* most words of an input text
MaxWidth == 30      \* largest max_width
MaxBoldExtra == 1   \* most a bold glyph is wider than the normal one

\* Program constants.
SlashSplitLen == 6      \* words longer than this are split at slashes
ForceBreakLen == 12     \* words longer than this may be force-broken
ChunkLen == 8           \* the length of a force-broken chunk

Letters == <<"a", "b", "c", "d", "e", "f", "g", "h", "i", "j",
             "k", "l", "m", "n", "o", "p", "q", "r", "s", "t">>
L(n) == SubSeq(Letters, 1, n)

\* The words the input texts are made of: short ones, words with a slash
\* inside, at the end and at the start, words longer than 12 characters
\* with and without hyphens.
Vocabulary ==
    { L(1), L(3),
      L(2) \o <<"/">> \o L(1),
      L(3) \o <<"/">> \o L(4),
      L(7) \o <<"/">>,
      <<"/">> \o L(7),
      L(13),
      L(12) \o <<"-">>,
      <<"-">> \o L(12),
      L(2) \o <<"-">> \o L(14) }

\* The elements of a set of integers in increasing order.
Sorted(S) ==
    [k \in 1..Cardinality(S) |->
        CHOOSE p \in S : Cardinality({ q \in S : q <= p }) = k]

RECURSIVE Concat(_)
Concat(ss) == IF ss = <<>> THEN <<>> ELSE ss[1] \o Concat(Tail(ss))

\* ' '.join(words)
RECURSIVE JoinSpace(_)
JoinSpace(words) ==
    IF words = <<>> THEN <<>>
    ELSE IF Len(words) = 1 THEN words[1]
    ELSE words[1] \o <<" ">> \o JoinSpace(Tail(words))

\* word.split(sep): the parts between the separators, empty parts kept.
SplitOn(word, sep) ==
    LET cuts == Sorted({ p \in 1..Len(word) : word[p] = sep })
        From(k) == IF k = 1 THEN 1 ELSE cuts[k - 1] + 1
        To(k) == IF k = Len(cuts) + 1 THEN Len(word) ELSE cuts[k] - 1
    IN [k \in 1..(Len(cuts) + 1) |-> SubSeq(word, From(k), To(k))]

\* t.split(): the maximal runs of characters that are not spaces.
Split(t) ==
    LET starts == Sorted({ p \in 1..Len(t) :
                             t[p] # " " /\ (p = 1 \/ t[p - 1] = " ") })
        EndOf(p) == CHOOSE q \in p..Len(t) :
                       /\ \A x \in p..q : t[x] # " "
                       /\ (q = Len(t) \/ t[q + 1] = " ")
    IN [k \in 1..Len(starts) |-> SubSeq(t, starts[k], EndOf(starts[k]))]

\* Font metrics: the advance of a glyph.  A bold glyph is bold_extra wider.
Advance(ch, bold) ==
    (IF ch \in {" ", "/", "-", "*"} THEN 1 ELSE 2) + (IF bold THEN bold_extra ELSE 0)

\* font.getbbox(t)[2] - font.getbbox(t)[0]: the width of t in one font.
RECURSIVE Width(_, _)
Width(t, bold) ==
    IF t = <<>> THEN 0 ELSE Advance(t[1], bold) + Width(Tail(t), bold)

\* The pre-processing of one word: a word with a slash and more than 6
\* characters becomes its parts, each but the last with its slash.
SlashParts(word) ==
    LET parts == SplitOn(word, "/")
    IN IF (\E p \in 1..Len(word) : word[p] = "/") /\ Len(word) > SlashSplitLen
       THEN [k \in 1..Len(parts) |->
               IF k < Len(parts) THEN parts[k] \o <<"/">> ELSE parts[k]]
       ELSE <<word>>

\* The words list of a text: every word of t.split(), pre-processed.
WordsOf(t) ==
    LET ws == Split(t) IN Concat([k \in 1..Len(ws) |-> SlashParts(ws[k])])

\* The tokens of wrap_text_with_bold: the words of every segment, each with
\* its segment's flag.
TokensOf(segs) ==
    Concat([k \in 1..Len(segs) |->
              LET ws == WordsOf(segs[k].text)
              IN [j \in 1..Len(ws) |-> Segment(ws[j], segs[k].is_bold)]])

TextsOf(line) == [k \in 1..Len(line) |-> line[k].text]

\* The greedy loop of wrap_text_with_bold from token k on.
RECURSIVE BoldLoop(_, _, _, _, _)
BoldLoop(words, k, done, current_line, mw) ==
    IF k > Len(words)
    THEN IF current_line # <<>> THEN Append(done, current_line) ELSE done
    ELSE
      LET word == words[k]
          test_text == JoinSpace(Append(TextsOf(current_line), word.text))
          test_width == Width(test_text, word.is_bold)
      IN IF test_width <= mw \/ current_line = <<>>
         THEN BoldLoop(words, k + 1, done, Append(current_line, word), mw)
         ELSE BoldLoop(words, k + 1, Append(done, current_line), <<word>>, mw)

wrap_text_with_bold(t, mw) ==
    BoldLoop(TokensOf(parse_bold_text(t)), 1, <<>>, <<>>, mw)

\* The pieces of a force-broken word with a hyphen: every part but the last
\* with its hyphen.
HyphenPieces(word) ==
    LET parts == SplitOn(word, "-")
    IN [k \in 1..Len(parts) |->
          IF k < Len(parts) THEN parts[k] \o <<"-">> ELSE parts[k]]

\* The pieces of a force-broken word without a hyphen: chunks of 8, every
\* chunk but the last followed by a hyphen.
ChunkPieces(word) ==
    LET n == (Len(word) + ChunkLen - 1) \div ChunkLen
    IN [k \in 1..n |->
          IF (k - 1) * ChunkLen + ChunkLen < Len(word)
          THEN SubSeq(word, (k - 1) * ChunkLen + 1, k * ChunkLen) \o <<"-">>
          ELSE SubSeq(word, (k - 1) * ChunkLen + 1, Len(word))]

\* The loop of wrap_text_pil from word k on; the font is the normal one.
RECURSIVE PilLoop(_, _, _, _, _)
PilLoop(words, k, done, current_line, mw) ==
    IF k > Len(words)
    THEN IF current_line # <<>> THEN Append(done, JoinSpace(current_line)) ELSE done
    ELSE
      LET word == words[k]
          width == Width(JoinSpace(Append(current_line, word)), FALSE)
      IN IF width <= mw
         THEN PilLoop(words, k + 1, done, Append(current_line, word), mw)
         ELSE IF current_line # <<>>
         THEN PilLoop(words, k + 1, Append(done, JoinSpace(current_line)), <<word>>, mw)
         ELSE IF Width(word, FALSE) > mw /\ Len(word) > ForceBreakLen
         THEN LET pieces == IF \E p \in 1..Len(word) : word[p] = "-"
                            THEN HyphenPieces(word)
                            ELSE ChunkPieces(word)
              IN PilLoop(words, k + 1,
                         done \o SubSeq(pieces, 1, Len(pieces) - 1),
                         <<pieces[Len(pieces)]>>, mw)
         ELSE PilLoop(words, k + 1, done, <<word>>, mw)

wrap_text_pil(t, mw) == PilLoop(WordsOf(t), 1, <<>>, <<>>, mw)

\* A word as written in the pool file: between '**' when emphasized.
Written(word, bold) == IF bold THEN <<"*", "*">> \o word \o <<"*", "*">> ELSE word

\* The input texts: up to MaxWords words, each emphasized or not.
WrapTexts ==
    UNION { { JoinSpace([k \in 1..n |-> Written(ws[k], bs[k])]) :
                ws \in [1..n -> Vocabulary], bs \in [1..n -> BOOLEAN] } :
            n \in 1..MaxWords }

\* The widths the cell renderer may pass: cell_width - 40 of some template.
WrapWidths == { w \in 1..MaxWidth : w % 5 = 0 }

InitWrap ==
    /\ pc = "wrap_start"
    /\ text \in WrapTexts
    /\ max_width \in WrapWidths
    /\ bold_extra \in 0..MaxBoldExtra
    /\ segments = <<>> /\ wrapped_lines = <<>> /\ lines = <<>>
    /\ IdleCard
    /\ IdlePdf
    /\ IdleMain
    /\ IdleCell

\* A call of wrap_text_with_bold(text, font_normal, font_bold, max_width).
CallWrapWithBold ==
    /\ pc = "wrap_start"
    /\ segments' = parse_bold_text(text)
    /\ wrapped_lines' = wrap_text_with_bold(text, max_width)
    /\ pc' = "wrap_bold_done"
    /\ UNCHANGED <<text, max_width, bold_extra, lines, cardVars, pdfVars, mainVars, cellVars>>

\* A call of wrap_text_pil(text, font_normal, max_width).
CallWrapPil ==
    /\ pc = "wrap_start"
    /\ lines' = wrap_text_pil(text, max_width)
    /\ pc' = "wrap_pil_done"
    /\ UNCHANGED <<text, max_width, bold_extra, segments, wrapped_lines,
                   cardVars, pdfVars, mainVars, cellVars>>

NextWrap ==
    \/ CallWrapWithBold
    \/ CallWrapPil

SpecWrap == InitWrap /\ [][NextWrap]_vars

(***************************************************************************)
(* Properties of the word wrap                                             *)
(***************************************************************************)

\* The width of a line as drawn: its tokens joined by single spaces, each
\* token in the font of its own weight, the spaces in the normal font.
RECURSIVE DrawnWidth(_)
DrawnWidth(line) ==
    IF line = <<>> THEN 0
    ELSE Width(line[1].text, line[1].is_bold)
            + (IF Len(line) > 1 THEN Advance(" ", FALSE) ELSE 0)
            + DrawnWidth(Tail(line))

\* C4: every line of wrap_text_with_bold is a single token or is no wider
\* than max_width, each token measured in the font of its own weight.
C4_LinesFit ==
    pc = "wrap_bold_done" =>
        \A n \in 1..Len(wrapped_lines) :
            Len(wrapped_lines[n]) = 1 \/ DrawnWidth(wrapped_lines[n]) <= max_width

\* C5: for a non-empty text no line is empty: every line of wrap_text_pil
\* is a non-empty string, every line of wrap_text_with_bold has a token with
\* non-empty text.
C5_NoEmptyLine ==
    /\ (pc = "wrap_pil_done" /\ text # <<>>) =>
          \A n \in 1..Len(lines) : lines[n] # <<>>
    /\ (pc = "wrap_bold_done" /\ text # <<>>) =>
          \A n \in 1..Len(wrapped_lines) :
              \E k \in 1..Len(wrapped_lines[n]) : wrapped_lines[n][k].text # <<>>

\* A line of tokens written back as text: the tokens, the emphasized ones
\* between '**', joined by single spaces.
Rejoined(line) ==
    JoinSpace([k \in 1..Len(line) |-> Written(line[k].text, line[k].is_bold)])

\* C6: wrapping one line of the result again, its tokens re-joined with
\* single spaces, at the same width and with the same fonts, gives that one
\* line back, for wrap_text_with_bold and for wrap_text_pil.
C6_Idempotent ==
    /\ pc = "wrap_bold_done" =>
          \A n \in 1..Len(wrapped_lines) :
              wrap_text_with_bold(Rejoined(wrapped_lines[n]), max_width)
                  = << wrapped_lines[n] >>
    /\ pc = "wrap_pil_done" =>
          \A n \in 1..Len(lines) :
              wrap_text_pil(lines[n], max_width) = << lines[n] >>

\* A token that the force-break is meant for: longer than 12 characters and
\* wider than max_width on its own.
TooLong(word, bold) == Len(word) > ForceBreakLen /\ Width(word, bold) > max_width

\* C13: no line of the word-wrap output holds an unbroken token that is
\* longer than 12 characters and wider than max_width on its own, wherever
\* the token stood in the text: such a token was split at its hyphens or
\* into chunks of 8 characters.
C13_LongTokensBroken ==
    /\ pc = "wrap_bold_done" =>
          \A n \in 1..Len(wrapped_lines) : \A k \in 1..Len(wrapped_lines[n]) :
              ~TooLong(wrapped_lines[n][k].text, wrapped_lines[n][k].is_bold)
    /\ pc = "wrap_pil_done" =>
          \A n \in 1..Len(lines) : \A k \in 1..Len(Split(lines[n])) :
              ~TooLong(Split(lines[n])[k], FALSE)

(***************************************************************************)
(* Cell renderer: main.py format_square_text, draw_bingo_on_template       *)
(***************************************************************************)

\* Bounds of the model.
MaxCellWords == 6       \* most words of one line of a square
MaxCellWidth == 440     \* widest cell

\* Program constants.
LargeSize == 70
MediumSize == 60
SmallSize == 50
SingleSize == 70
MainSize == 65
SecondarySize == 45
BlockSize == 60
LargeFrom == 65
MediumFrom == 55
SingleMaxLines == 4
MainMaxLines == 2
SecondaryMaxLines == 3
TextPadding == 40
SingleLineGap == 4
TwoLineGap == 2
BottomMargin == 20
min_gap == 20
TopMargin == 20
BingoStartY == 950

\* The lines of the squares the renderer is given: one or two words that
\* alternate, up to MaxCellWords words; no bold markers.
CellWords == {L(2), L(4)}
CellTexts ==
    { JoinSpace([k \in 1..n |-> IF k % 2 = 1 THEN a ELSE b]) :
        a \in CellWords, b \in CellWords, n \in 1..MaxCellWords }

\* A square is the sequence of its lines: one line, two lines, three lines.
CellSquares ==
    { <<t>> : t \in CellTexts }
      \cup { <<t, u>> : t \in CellTexts, u \in CellTexts }
      \cup { <<t, u, u>> : t \in CellTexts, u \in CellWords }

\* The cell sides of the templates: cell_width = card_width // 5.
CellWidths == { w \in 1..MaxCellWidth : w % 110 = 0 }

\* format_square_text on the lines of square_text.  The block of more than
\* two lines keeps its newlines, which str.split() treats as spaces.
format_square_text(square_lines) ==
    IF Len(square_lines) = 1
    THEN << <<square_lines[1], SingleSize>> >>
    ELSE IF Len(square_lines) = 2
    THEN << <<square_lines[1], MainSize>>, <<square_lines[2], SecondarySize>> >>
    ELSE << <<JoinSpace(square_lines), BlockSize>> >>

\* `font_large if size >= 65 else font_medium if size >= 55 else font_small`
TierOf(font_size) ==
    IF font_size >= LargeFrom THEN "large"
    ELSE IF font_size >= MediumFrom THEN "medium"
    ELSE "small"

SizeOf(tier) ==
    IF tier = "large" THEN LargeSize
    ELSE IF tier = "medium" THEN MediumSize
    ELSE SmallSize

\* A scalable font: a glyph of advance u at size 10 has advance u * size / 10,
\* so a line fits mw at a tier when its advance at size 10 is at most this.
FitWidth(tier, mw) == (mw * 10) \div SizeOf(tier)

\* wrap_text_with_bold(text, font_normal, font_bold, cell_width - 40)
WrapAt(t, tier, cw) == wrap_text_with_bold(t, FitWidth(tier, cw - TextPadding))

\* font.getbbox('Ay')[3] - font.getbbox('Ay')[1] + gap
LineHeight(tier, gap) == SizeOf(tier) + gap

\* `if font == font_large: medium elif font == font_medium: small`
Demote(tier) ==
    IF tier = "large" THEN "medium"
    ELSE IF tier = "medium" THEN "small"
    ELSE tier

\* The main block left where the gap puts it, above the top padding or not.
NoClamp(y, min_y1) == y

\* `if start_y1 < min_y1: start_y1 = min_y1`
ClampTop(y, min_y1) == IF y < min_y1 THEN min_y1 ELSE y

\* start_y2 = cell_y + cell_height - total_line2_height - 20
StartY2(cy, ch, total_line2_height) == cy + ch - total_line2_height - BottomMargin

\* Lines 408-422: the main block is centred, pushed up to keep the gap, and
\* clamped to the top padding.
StartY1(cy, ch, total_line1_height, sy2) ==
    LET text_center_y == cy + ch \div 2
        ideal_center_y == text_center_y - total_line1_height \div 2
        max_main_text_bottom == sy2 - min_gap
    IN ClampTop(IF ideal_center_y + total_line1_height > max_main_text_bottom
                THEN max_main_text_bottom - total_line1_height
                ELSE ideal_center_y,
                cy + TopMargin)

\* cell_height = card_height // 5 with card_height = card_width.
cell_height == cell_width

InitCell ==
    /\ pc = "cell_start"
    /\ \E sq \in CellSquares : formatted_text = format_square_text(sq)
    /\ cell_width \in CellWidths
    /\ \E row \in {0, GridSize - 1} : cell_y = BingoStartY + row * cell_width
    /\ font_normal = "none" /\ font1_normal = "none" /\ font2_normal = "none"
    /\ wrapped_line1 = <<>> /\ wrapped_line2 = <<>>
    /\ start_y1 = 0 /\ start_y2 = 0
    /\ IdleCard
    /\ IdleText
    /\ IdlePdf
    /\ IdleMain

\* Lines 295-302: a single block is wrapped at the tier of its size.
WrapSingle ==
    /\ pc = "cell_start"
    /\ Len(formatted_text) = 1
    /\ font_normal' = TierOf(formatted_text[1][2])
    /\ wrapped_lines' = WrapAt(formatted_text[1][1], font_normal', cell_width)
    /\ pc' = "single_count"
    /\ UNCHANGED <<text, max_width, bold_extra, segments, lines, formatted_text,
                   cell_width, cell_y, font1_normal, font2_normal, wrapped_line1,
                   wrapped_line2, start_y1, start_y2, cardVars, pdfVars, mainVars>>

\* Lines 305-313: the line-count step of a single block.
SingleLineCount ==
    /\ pc = "single_count"
    /\ font_normal' = IF Len(wrapped_lines) > SingleMaxLines
                      THEN Demote(font_normal) ELSE font_normal
    /\ wrapped_lines' = WrapAt(formatted_text[1][1], font_normal', cell_width)
    /\ pc' = "single_height"
    /\ UNCHANGED <<text, max_width, bold_extra, segments, lines, formatted_text,
                   cell_width, cell_y, font1_normal, font2_normal, wrapped_line1,
                   wrapped_line2, start_y1, start_y2, cardVars, pdfVars, mainVars>>

\* Lines 316-333: the height step of a single block.
SingleHeight ==
    /\ pc = "single_height"
    /\ LET line_height == LineHeight(font_normal, SingleLineGap)
           total_height == Len(wrapped_lines) * line_height
           max_height == cell_height - TextPadding
       IN font_normal' = IF total_height > max_height
                         THEN Demote(font_normal) ELSE font_normal
    /\ wrapped_lines' = WrapAt(formatted_text[1][1], font_normal', cell_width)
    /\ pc' = "cell_done"
    /\ UNCHANGED <<text, max_width, bold_extra, segments, lines, formatted_text,
                   cell_width, cell_y, font1_normal, font2_normal, wrapped_line1,
                   wrapped_line2, start_y1, start_y2, cardVars, pdfVars, mainVars>>

\* Lines 361-373: both lines of a two-line square are wrapped at the tiers of
\* their sizes.
WrapTwo ==
    /\ pc = "cell_start"
    /\ Len(formatted_text) = 2
    /\ font1_normal' = TierOf(formatted_text[1][2])
    /\ font2_normal' = TierOf(formatted_text[2][2])
    /\ wrapped_line1' = WrapAt(formatted_text[1][1], font1_normal', cell_width)
    /\ wrapped_line2' = WrapAt(formatted_text[2][1], font2_normal', cell_width)
    /\ pc' = "main_count"
    /\ UNCHANGED <<formatted_text, cell_width, cell_y, font_normal, start_y1, start_y2,
                   cardVars, textVars, pdfVars, mainVars>>

\* Lines 377-385: the line-count step of the main line.
MainLineCount ==
    /\ pc = "main_count"
    /\ font1_normal' = IF Len(wrapped_line1) > MainMaxLines
                       THEN Demote(font1_normal) ELSE font1_normal
    /\ wrapped_line1' = WrapAt(formatted_text[1][1], font1_normal', cell_width)
    /\ pc' = "secondary_count"
    /\ UNCHANGED <<formatted_text, cell_width, cell_y, font_normal, font2_normal,
                   wrapped_line2, start_y1, start_y2,
                   cardVars, textVars, pdfVars, mainVars>>

\* Lines 388-396: the line-count step of the secondary line.
SecondaryLineCount ==
    /\ pc = "secondary_count"
    /\ font2_normal' = IF Len(wrapped_line2) > SecondaryMaxLines
                       THEN Demote(font2_normal) ELSE font2_normal
    /\ wrapped_line2' = WrapAt(formatted_text[2][1], font2_normal', cell_width)
    /\ pc' = "layout"
    /\ UNCHANGED <<formatted_text, cell_width, cell_y, font_normal, font1_normal,
                   wrapped_line1, start_y1, start_y2,
                   cardVars, textVars, pdfVars, mainVars>>

\* The height of the wrapped main and secondary blocks (lines 399-403).
total_line1_height == Len(wrapped_line1) * LineHeight(font1_normal, TwoLineGap)
total_line2_height == Len(wrapped_line2) * LineHeight(font2_normal, TwoLineGap)

\* Lines 398-422: the two blocks are placed.
Layout ==
    /\ pc = "layout"
    /\ start_y2' = StartY2(cell_y, cell_height, total_line2_height)
    /\ start_y1' = StartY1(cell_y, cell_height, total_line1_height, start_y2')
    /\ pc' = "cell_done"
    /\ UNCHANGED <<formatted_text, cell_width, cell_y, font_normal, font1_normal,
                   font2_normal, wrapped_line1, wrapped_line2,
                   cardVars, textVars, pdfVars, mainVars>>

NextCell ==
    \/ WrapSingle
    \/ SingleLineCount
    \/ SingleHeight
    \/ WrapTwo
    \/ MainLineCount
    \/ SecondaryLineCount
    \/ Layout

SpecCell == InitCell /\ [][NextCell]_vars

(***************************************************************************)
(* Properties of the cell renderer                                         *)
(***************************************************************************)

\* C12: when a line-count step has finished, the block it handled is within
\* its line threshold (4 for a single block, 2 for the main line, 3 for the
\* secondary line) or is at the smallest font tier.
C12_DemotedUntilFit ==
    /\ pc = "single_height" =>
          Len(wrapped_lines) <= SingleMaxLines \/ font_normal = "small"
    /\ pc \in {"secondary_count", "layout"} =>
          Len(wrapped_line1) <= MainMaxLines \/ font1_normal = "small"
    /\ pc = "layout" =>
          Len(wrapped_line2) <= SecondaryMaxLines \/ font2_normal = "small"

\* The main block of a placed two-line square ends at least min_gap above
\* the top of the secondary block.
GapKept == start_y1 + total_line1_height <= start_y2 - min_gap

\* The two blocks, the gap between them and the paddings above and below
\* fit in the height of the cell.
BlocksFit ==
    TopMargin + total_line1_height + min_gap + total_line2_height + BottomMargin
        <= cell_height

\* C14 as claimed: in every placed two-line square the main block ends at
\* least the 20-pixel gap above start_y2, and start_y1 is not above
\* cell_y + 20.
C14_GapAndTopKept ==
    (pc = "cell_done" /\ Len(formatted_text) = 2) =>
        /\ GapKept
        /\ start_y1 >= cell_y + TopMargin

\* C14, amended: in every placed two-line square start_y1 is not above
\* cell_y + 20; the main block ends at least the 20-pixel gap above start_y2
\* exactly when the two blocks, the gap and the two 20-pixel paddings fit in
\* the cell height, and otherwise the main block starts at cell_y + 20.
C14_TopKeptGapIfFits ==
    (pc = "cell_done" /\ Len(formatted_text) = 2) =>
        /\ start_y1 >= cell_y + TopMargin
        /\ start_y2 = cell_y + cell_height - total_line2_height - BottomMargin
        /\ GapKept <=> BlocksFit
        /\ ~BlocksFit => start_y1 = cell_y + TopMargin

\* A placed two-line square whose main block was pushed up from the centre
\* of the cell to keep the gap, without reaching the top padding.
C14_Witness ==
    /\ pc = "cell_done"
    /\ Len(formatted_text) = 2
    /\ start_y1 + total_line1_height = start_y2 - min_gap
    /\ start_y1 > cell_y + TopMargin
    /\ start_y1 < cell_y + cell_height \div 2 - total_line1_height \div 2

(***************************************************************************)
(* PDF assembler: create_pdf.py                                            *)
(***************************************************************************)

\* Bound of the model: the most card files in the finals folder.
MaxCards == 8

\* Program constant: the grid slots of a compact page.
CardsPerPage == 4

\* The card number of a file name, as main.py writes it: {n:02d}, a
\* sequence of decimal digits, at least two.
RECURSIVE Digits(_)
Digits(n) == IF n < 10 THEN <<n>> ELSE Append(Digits(n \div 10), n % 10)
CardName(n) == IF n < 10 THEN <<0, n>> ELSE Digits(n)

\* The order of Python strings: a < b.
RECURSIVE LexLess(_, _)
LexLess(a, b) ==
    IF b = <<>> THEN FALSE
    ELSE IF a = <<>> THEN TRUE
    ELSE IF a[1] # b[1] THEN a[1] < b[1]
    ELSE LexLess(Tail(a), Tail(b))

\* glob.glob: the names of the folder in an order the file system chooses.
GlobOrders(names) ==
    LET up == [k \in 1..Cardinality(names) |->
                  CHOOSE f \in names :
                      Cardinality({ g \in names : g = f \/ LexLess(g, f) }) = k]
    IN { up, [k \in 1..Len(up) |-> up[Len(up) + 1 - k]] }

\* card_files.sort()
SortFiles(files) ==
    LET names == { files[k] : k \in 1..Len(files) }
    IN [k \in 1..Len(files) |->
          CHOOSE f \in names :
              Cardinality({ g \in names : g = f \/ LexLess(g, f) }) = k]

\* What is drawn on a page: an image in a slot, a card label, a footer.
Image(f, slot) == [kind |-> "image", file |-> f, n |-> slot]
Label(n) == [kind |-> "label", file |-> <<>>, n |-> n]
Footer(n) == [kind |-> "footer", file |-> <<>>, n |-> n]

\* canvas.showPage(): the page in progress is emitted, blank or not.
ShowPage(pgs, pg) == Append(pgs, pg)

\* canvas.save(): a page in progress that has content is emitted first.
SavePages(pgs, pg) == IF pg # <<>> THEN ShowPage(pgs, pg) ELSE pgs

\* A page break unless this is one of the last two files.
BreakEarly(idx, count) == idx < count - 2

\* `if i < len(card_files) - 1`: a page break unless this is the last file.
BreakNeeded(idx, count) == idx < count - 1

\* Every card in the first slot.
FirstSlot(count) == 0

\* positions[cards_on_page]
SlotOf(count) == count

\* A failure raised after the image was drawn.
DrawnThenFailed(pg, item) == Append(pg, item)

\* The page after Image.open or drawImage raised: nothing was drawn.
PageAfterFailure(pg, item) == pg

\* `if cards_on_page >= 4 or i == len(card_files) - 1`
PageComplete(count, idx, total) == count >= CardsPerPage \/ idx = total - 1

InitPdf ==
    /\ pc \in {"full_start", "compact_start"}
    /\ finals_exists \in BOOLEAN
    /\ \E total \in 0..MaxCards :
          /\ finals = IF finals_exists THEN { CardName(n) : n \in 1..total } ELSE {}
          /\ unreadable \in SUBSET finals
    /\ card_files = <<>>
    /\ i = 0 /\ cards_on_page = 0 /\ page_num = 0
    /\ pages = <<>> /\ page = <<>> /\ saved = 0 /\ canvas = FALSE
    /\ IdleCard
    /\ IdleText
    /\ IdleMain
    /\ IdleCell

\* Lines 12-15 and 82-85: the folder is missing.
NoFolder ==
    /\ pc \in {"full_start", "compact_start"}
    /\ ~finals_exists
    /\ pc' = "pdf_error"
    /\ UNCHANGED <<cardVars, textVars, pdfVars, mainVars, cellVars>>

\* The empty listing noticed only after the canvas was made: an empty PDF is
\* saved.
NoFilesEmptyPdf ==
    /\ pc \in {"full_start", "compact_start"}
    /\ finals_exists
    /\ finals = {}
    /\ canvas' = TRUE
    /\ saved' = saved + 1
    /\ pc' = "pdf_error"
    /\ UNCHANGED <<finals_exists, finals, card_files, unreadable, i, cards_on_page,
                   page_num, pages, page, cardVars, textVars, mainVars, cellVars>>

\* Lines 18-23 and 88-93: the folder holds no card file.
NoFiles ==
    /\ pc \in {"full_start", "compact_start"}
    /\ finals_exists
    /\ finals = {}
    /\ pc' = "pdf_error"
    /\ UNCHANGED <<cardVars, textVars, pdfVars, mainVars, cellVars>>

\* Lines 18-32: the files are listed and sorted, the canvas is created.
FullOpen ==
    /\ pc = "full_start"
    /\ finals_exists
    /\ finals # {}
    /\ \E listed \in GlobOrders(finals) : card_files' = SortFiles(listed)
    /\ i' = 0
    /\ canvas' = TRUE
    /\ pages' = <<>> /\ page' = <<>>
    /\ pc' = "full_loop"
    /\ UNCHANGED <<finals_exists, finals, unreadable, cards_on_page, page_num, saved,
                   cardVars, textVars, mainVars, cellVars>>

\* Lines 34-66: a card that opens is drawn, then the page is broken.
FullCardDrawn ==
    /\ pc = "full_loop"
    /\ i < Len(card_files)
    /\ card_files[i + 1] \notin unreadable
    /\ LET drawn == Append(page, Image(card_files[i + 1], 0))
       IN IF BreakNeeded(i, Len(card_files))
          THEN pages' = ShowPage(pages, drawn) /\ page' = <<>>
          ELSE pages' = pages /\ page' = drawn
    /\ i' = i + 1
    /\ UNCHANGED <<pc, finals_exists, finals, card_files, unreadable, cards_on_page,
                   page_num, saved, canvas, cardVars, textVars, mainVars, cellVars>>

\* Lines 37-39, 62, 68-70: Image.open or drawImage raises, the card is skipped.
FullCardFailed ==
    /\ pc = "full_loop"
    /\ i < Len(card_files)
    /\ card_files[i + 1] \in unreadable
    /\ page' = PageAfterFailure(page, Image(card_files[i + 1], 0))
    /\ i' = i + 1
    /\ UNCHANGED <<pc, finals_exists, finals, card_files, unreadable, cards_on_page,
                   page_num, pages, saved, canvas, cardVars, textVars, mainVars, cellVars>>

\* Line 73: c.save().
FullSave ==
    /\ pc = "full_loop"
    /\ i = Len(card_files)
    /\ pages' = SavePages(pages, page)
    /\ page' = <<>>
    /\ saved' = saved + 1
    /\ pc' = "full_done"
    /\ UNCHANGED <<finals_exists, finals, card_files, unreadable, i, cards_on_page,
                   page_num, canvas, cardVars, textVars, mainVars, cellVars>>

\* Lines 88-117: the files are listed and sorted, the canvas is created.
CompactOpen ==
    /\ pc = "compact_start"
    /\ finals_exists
    /\ finals # {}
    /\ \E listed \in GlobOrders(finals) : card_files' = SortFiles(listed)
    /\ i' = 0
    /\ cards_on_page' = 0
    /\ page_num' = 1
    /\ canvas' = TRUE
    /\ pages' = <<>> /\ page' = <<>>
    /\ pc' = "compact_loop"
    /\ UNCHANGED <<finals_exists, finals, unreadable, saved,
                   cardVars, textVars, mainVars, cellVars>>

\* Lines 119-148: a card that opens is drawn in its slot and labelled; a
\* complete page gets its footer and, unless the file is the last, a break.
CompactCardDrawn ==
    /\ pc = "compact_loop"
    /\ i < Len(card_files)
    /\ card_files[i + 1] \notin unreadable
    /\ LET drawn == page \o << Image(card_files[i + 1], SlotOf(cards_on_page)),
                               Label(i + 1) >>
           count == cards_on_page + 1
       IN IF PageComplete(count, i, Len(card_files))
          THEN /\ cards_on_page' = 0
               /\ IF BreakNeeded(i, Len(card_files))
                  THEN /\ pages' = ShowPage(pages, Append(drawn, Footer(page_num)))
                       /\ page' = <<>>
                       /\ page_num' = page_num + 1
                  ELSE /\ pages' = pages
                       /\ page' = Append(drawn, Footer(page_num))
                       /\ page_num' = page_num
          ELSE /\ cards_on_page' = count
               /\ pages' = pages
               /\ page' = drawn
               /\ page_num' = page_num
    /\ i' = i + 1
    /\ UNCHANGED <<pc, finals_exists, finals, card_files, unreadable, saved, canvas,
                   cardVars, textVars, mainVars, cellVars>>

\* Lines 120-128, 150-152: Image.open or drawImage raises, the card is skipped.
CompactCardFailed ==
    /\ pc = "compact_loop"
    /\ i < Len(card_files)
    /\ card_files[i + 1] \in unreadable
    /\ page' = PageAfterFailure(page, Image(card_files[i + 1], SlotOf(cards_on_page)))
    /\ i' = i + 1
    /\ UNCHANGED <<pc, finals_exists, finals, card_files, unreadable, cards_on_page,
                   page_num, pages, saved, canvas, cardVars, textVars, mainVars, cellVars>>

\* Line 154: c.save().
CompactSave ==
    /\ pc = "compact_loop"
    /\ i = Len(card_files)
    /\ pages' = SavePages(pages, page)
    /\ page' = <<>>
    /\ saved' = saved + 1
    /\ pc' = "compact_done"
    /\ UNCHANGED <<finals_exists, finals, card_files, unreadable, i, cards_on_page,
                   page_num, canvas, cardVars, textVars, mainVars, cellVars>>

NextPdf ==
    \/ NoFolder
    \/ NoFiles
    \/ FullOpen
    \/ FullCardDrawn
    \/ FullCardFailed
    \/ FullSave
    \/ CompactOpen
    \/ CompactCardDrawn
    \/ CompactCardFailed
    \/ CompactSave

SpecPdf == InitPdf /\ [][NextPdf]_vars

\* Each function runs to its end: a step that can be taken is taken.
FairSpecPdf == SpecPdf /\ WF_vars(NextPdf)

(***************************************************************************)
(* Card generator: main.py main, followed by a run of create_pdf.py         *)
(***************************************************************************)

\* Bound of the model.
MaxNumCards == 100      \* the largest number of cards asked for

\* Program constant.
DefaultNumCards == 12

\* The numbers of cards asked for: up to the default, and the largest two.
NumCardChoices ==
    { n \in 1..MaxNumCards : n <= DefaultNumCards \/ n >= MaxNumCards - 1 }

\* What the user types: nothing, something that is no integer, an integer.
UserInputs ==
    { <<"empty", 0>>, <<"invalid", 0>>, <<"int", 0>> }
        \cup { <<"int", n>> : n \in NumCardChoices }

\* Lines 476-487: the default for an empty, invalid or non-positive answer.
ParseNumCards(user_input) ==
    IF user_input[1] = "int" /\ user_input[2] > 0
    THEN user_input[2]
    ELSE DefaultNumCards

InitMain ==
    /\ pc = "main_start"
    /\ num_cards = 0
    /\ finals_exists \in BOOLEAN
    /\ finals = {}
    /\ card_files = <<>> /\ unreadable = {} /\ i = 0 /\ cards_on_page = 0
    /\ page_num = 0 /\ pages = <<>> /\ page = <<>> /\ saved = 0
    /\ canvas = FALSE
    /\ IdleCard
    /\ IdleText
    /\ IdleCell

\* Lines 476-490: the number of cards is read, the finals folder is made.
AskNumCards ==
    /\ pc = "main_start"
    /\ \E user_input \in UserInputs : num_cards' = ParseNumCards(user_input)
    /\ finals_exists' = TRUE
    /\ i' = 1
    /\ pc' = "main_loop"
    /\ UNCHANGED <<finals, card_files, unreadable, cards_on_page, page_num, pages,
                   page, saved, canvas, cardVars, textVars, cellVars>>

\* Lines 493, 505, 511-514: bingo.txt or bingo.png is missing, main reports
\* the error before any card is written.
MainFailed ==
    /\ pc = "main_loop"
    /\ i = 1
    /\ pc' = "main_error"
    /\ UNCHANGED <<cardVars, textVars, pdfVars, mainVars, cellVars>>

\* Lines 497-507: card i is composed, drawn and written to
\* finals/bingo_card_{i:02d}.png; of the file only its name is kept.
GenerateCard ==
    /\ pc = "main_loop"
    /\ i <= num_cards
    /\ finals' = finals \cup {CardName(i)}
    /\ i' = i + 1
    /\ UNCHANGED <<pc, finals_exists, card_files, unreadable, cards_on_page,
                   page_num, pages, page, saved, canvas,
                   cardVars, textVars, mainVars, cellVars>>

\* Line 509: the loop is over.
GenerateDone ==
    /\ pc = "main_loop"
    /\ i > num_cards
    /\ pc' = "main_done"
    /\ UNCHANGED <<cardVars, textVars, pdfVars, mainVars, cellVars>>

\* create_pdf.py main: the user picks the full-page or the compact format.
StartPdf ==
    /\ pc = "main_done"
    /\ pc' \in {"full_start", "compact_start"}
    /\ i' = 0
    /\ UNCHANGED <<finals_exists, finals, card_files, unreadable, cards_on_page,
                   page_num, pages, page, saved, canvas,
                   cardVars, textVars, mainVars, cellVars>>

\* The generator, then the PDF assembler on the files it wrote, all of
\* which open.
NextMain ==
    \/ AskNumCards
    \/ MainFailed
    \/ GenerateCard
    \/ GenerateDone
    \/ StartPdf
    \/ FullOpen
    \/ FullCardDrawn
    \/ FullSave
    \/ CompactOpen
    \/ CompactCardDrawn
    \/ CompactSave

SpecMain == InitMain /\ [][NextMain]_vars

(***************************************************************************)
(* Properties of the PDF assembler                                         *)
(***************************************************************************)

\* The images of a page, in drawing order.
ImagesOf(pg) == LET IsImage(item) == item.kind = "image" IN SelectSeq(pg, IsImage)
SlotsOf(pg) == { ImagesOf(pg)[k].n : k \in 1..Len(ImagesOf(pg)) }

\* The files placed in the document, in page and drawing order.
Placed ==
    Concat([k \in 1..Len(pages) |->
              [j \in 1..Len(ImagesOf(pages[k])) |-> ImagesOf(pages[k])[j].file]])

GridSlots == 0..(CardsPerPage - 1)

\* C8: in four-per-page mode, with N >= 1 files that all open, the document
\* has ceil(N/4) pages, every page but the last holds 4 placements in the
\* four distinct grid slots, and the last holds N - 4*(ceil(N/4) - 1).
C8_CompactPages ==
    (pc = "compact_done" /\ unreadable = {}) =>
        LET total == Len(card_files)
            last == (total + CardsPerPage - 1) \div CardsPerPage
        IN /\ total >= 1
           /\ Len(pages) = last
           /\ \A k \in 1..(last - 1) :
                 /\ Len(ImagesOf(pages[k])) = CardsPerPage
                 /\ SlotsOf(pages[k]) = GridSlots
           /\ Len(ImagesOf(pages[last])) = total - CardsPerPage * (last - 1)
           /\ Cardinality(SlotsOf(pages[last])) = Len(ImagesOf(pages[last]))
           /\ SlotsOf(pages[last]) \subseteq GridSlots

\* A compact document of more than one page whose last page is not full.
C8_Witness ==
    /\ pc = "compact_done"
    /\ unreadable = {}
    /\ Len(card_files) > CardsPerPage
    /\ Len(card_files) % CardsPerPage # 0

\* C9: in one-per-page mode, with N >= 1 files that all open, the document
\* has N pages, each page holds one card image, and the cards appear in the
\* sorted order of their file names.
C9_FullPages ==
    (pc = "full_done" /\ unreadable = {}) =>
        /\ Len(card_files) >= 1
        /\ Len(pages) = Cardinality(finals)
        /\ \A k \in 1..Len(pages) : Len(ImagesOf(pages[k])) = 1
        /\ { Placed[k] : k \in 1..Len(Placed) } = finals
        /\ \A k \in 1..(Len(Placed) - 1) : LexLess(Placed[k], Placed[k + 1])

\* A full-size document of several cards, all of which opened.
C9_Witness ==
    /\ pc = "full_done"
    /\ unreadable = {}
    /\ Cardinality(finals) >= 3
    /\ Len(pages) >= 3

\* What C10 says of a saved document: save was reached once, the files that
\* open are placed once each in sorted order and no other file is placed,
\* and no page holds two cards in one slot: one card a page in full-page
\* mode, distinct grid slots in compact mode.
C10_Saved ==
    pc \in {"full_done", "compact_done"} =>
        /\ saved = 1
        /\ page = <<>>
        /\ { Placed[k] : k \in 1..Len(Placed) } = finals \ unreadable
        /\ \A k \in 1..(Len(Placed) - 1) : LexLess(Placed[k], Placed[k + 1])
        /\ \A k \in 1..Len(pages) :
              /\ Cardinality(SlotsOf(pages[k])) = Len(ImagesOf(pages[k]))
              /\ pc = "full_done" => Len(ImagesOf(pages[k])) <= 1
              /\ pc = "compact_done" => SlotsOf(pages[k]) \subseteq GridSlots

\* C10: in both modes, whatever files fail to open or embed, the run
\* reaches the final save, every file that opens is placed exactly once in
\* sorted order, no two cards share a slot of a page, and a failed card is
\* not placed.
C10_FailuresSkipped ==
    /\ []C10_Saved
    /\ (pc \in {"full_loop", "compact_loop"}) ~> (saved = 1)

\* A saved compact document of several pages from a folder in which some
\* files failed and some opened.
C10_Witness ==
    /\ pc = "compact_done"
    /\ unreadable # {}
    /\ Len(pages) >= 2
    /\ Len(Placed) < Len(card_files)

\* What C11 says of every state: without a folder or without a card file
\* no canvas is created and nothing is drawn or saved; with a card file
\* the error path is not taken; save never precedes the canvas and is never
\* called twice.
C11_NoPdfOnError ==
    /\ (~finals_exists \/ finals = {}) =>
          /\ ~canvas
          /\ saved = 0
          /\ pages = <<>> /\ page = <<>>
          /\ pc \in {"full_start", "compact_start", "pdf_error"}
    /\ (finals_exists /\ finals # {}) => pc # "pdf_error"
    /\ saved >= 1 => canvas
    /\ saved <= 1

\* C11: when the finals folder is absent or holds no card file, each PDF
\* function reports the error and returns with no canvas created and save
\* never called; with at least one card file, save is called exactly once,
\* and after it no page is drawn or broken.  Every run ends on the error
\* path or at the save.
C11_SaveOnlyWithFiles ==
    /\ []C11_NoPdfOnError
    /\ [][saved >= 1 => UNCHANGED <<pages, page, saved>>]_vars
    /\ <>(pc = "pdf_error" \/ saved = 1)

\* A function that returned on the error path of an empty folder.
C11_Witness ==
    /\ pc = "pdf_error"
    /\ finals_exists
    /\ finals = {}
    /\ ~canvas

\* The page numbers of the 'Page N' footers stamped on a page, one entry a
\* footer.
FootersOf(pg) ==
    LET IsFooter(item) == item.kind = "footer"
        stamped == SelectSeq(pg, IsFooter)
    IN [k \in 1..Len(stamped) |-> stamped[k].n]

\* C15: in four-per-page mode, whatever files fail, every page of the saved
\* document that holds at least one card carries exactly one 'Page N'
\* footer, stamped before the page was broken, and N is the 1-based position
\* of the page in the document.
C15_OneFooterPerPage ==
    pc = "compact_done" =>
        \A k \in 1..Len(pages) :
            Len(ImagesOf(pages[k])) >= 1 => FootersOf(pages[k]) = <<k>>

\* The compact labels of a page: each card image is followed by the label
\* 'Card k' of the k-th generated card.
LabelsMatch(pg) ==
    \A j \in 1..Len(pg) :
        pg[j].kind = "image" =>
            /\ j < Len(pg)
            /\ pg[j + 1].kind = "label"
            /\ pg[j].file = CardName(pg[j + 1].n)

\* C16: for every number N >= 1 of generated cards the sorted list of the
\* file names bingo_card_{i:02d}.png, i = 1..N, is in generation order, so
\* the k-th card placed is the k-th card generated and the compact label
\* 'Card k' stands under the k-th generated card.
C16_SortedAsGenerated ==
    /\ (num_cards >= 1 /\ pc \in {"full_loop", "compact_loop", "full_done", "compact_done"}) =>
          /\ Len(card_files) = num_cards
          /\ \A k \in 1..Len(card_files) : card_files[k] = CardName(k)
    /\ (num_cards >= 1 /\ pc \in {"full_done", "compact_done"}) =>
          \A k \in 1..Len(Placed) : Placed[k] = CardName(k)
    /\ (num_cards >= 1 /\ pc = "compact_done") =>
          \A k \in 1..Len(pages) : LabelsMatch(pages[k])

(***************************************************************************)
(* The repository as a whole: one of its operations runs                   *)
(***************************************************************************)

Init == InitCard \/ InitBold \/ InitWrap \/ InitCell \/ InitPdf \/ InitMain

Next == NextCard \/ NextBold \/ NextWrap \/ NextCell \/ NextPdf \/ NextMain

Spec == Init /\ [][Next]_vars

====
